---- MODULE Spec2Model ----
(***************************************************************************)
(* A model of server/server.py, the server-side FCM sample: the            *)
(* module-level load of the service account file, main()'s dispatch on     *)
(* --message, the three message builders, the token exchange and the       *)
(* message POST.  One behaviour is one invocation of the script.           *)
(*                                                                         *)
(* Python values are tagged records (None, Str, Num, True, Obj) so that a  *)
(* JSON null, an empty string and a missing key stay distinguishable;      *)
(* dicts built by the program are functions on their key strings.          *)
(***************************************************************************)
EXTENDS Integers, Sequences, FiniteSets, TLC

\* How many distinct project ids / access tokens the environment may hold.
NumProjects == 2
NumTokens == 2

----------------------------------------------------------------------------
\* Python / JSON leaf values.
None == [t |-> "null", s |-> "", n |-> 0]
Str(x) == [t |-> "str", s |-> x, n |-> 0]
Num(k) == [t |-> "num", s |-> "", n |-> k]
True == [t |-> "bool", s |-> "", n |-> 1]
\* A JSON object that the program never looks into: its text and its size.
Obj(x, k) == [t |-> "obj", s |-> x, n |-> k]

\* Python truth value, as `if link:` / `if args.message` evaluate it.
truthy(v) ==
    CASE v.t = "null" -> FALSE
      [] v.t = "str" -> v.s # ""
      [] v.t = "num" -> v.n # 0
      [] v.t = "bool" -> v.n # 0
      [] v.t = "obj" -> v.n # 0

\* dict.get(key): the value, or None when the key is missing.
get(d, key) == IF key \in d.keys THEN d.vals[key] ELSE None

----------------------------------------------------------------------------
\* The service account file on disk, as the module level reads it.
ProjectIds == {"project-" \o ToString(i) : i \in 1..NumProjects}

ServiceAccountFiles ==
    {[kind |-> "missing", keys |-> {}, vals |-> [project_id |-> None]],
     [kind |-> "not_json", keys |-> {}, vals |-> [project_id |-> None]],
     [kind |-> "object", keys |-> {}, vals |-> [project_id |-> None]],
     [kind |-> "object", keys |-> {"project_id"}, vals |-> [project_id |-> None]],
     [kind |-> "object", keys |-> {"project_id"}, vals |-> [project_id |-> Num(7)]]}
    \cup {[kind |-> "object", keys |-> {"project_id"}, vals |-> [project_id |-> Str(p)]] :
            p \in ProjectIds}

\* The parameter bundles a JSON object given to --message may decode to.
ParamKeys == {"title", "body", "topic", "data", "link", "icon"}

ParamValues ==
    [title |-> {Str("T")},
     body |-> {Str("B")},
     topic |-> {Str("promo"), None},
     data |-> {Obj("{k: v}", 1)},
     link |-> {Str("https://x"), Str(""), None, Num(0)},
     icon |-> {Str("ic_x"), Str(""), None}]

NoParams == [k \in ParamKeys |-> None]

\* Marks a key the JSON object does not hold.
Missing == [t |-> "missing", s |-> "", n |-> 0]

Bundles ==
    {[keys |-> {k \in ParamKeys : c[k] # Missing},
      vals |-> [k \in ParamKeys |-> IF c[k] # Missing THEN c[k] ELSE None]] :
        c \in [title : ParamValues.title \cup {Missing},
               body : ParamValues.body \cup {Missing},
               topic : ParamValues.topic \cup {Missing},
               data : ParamValues.data \cup {Missing},
               link : ParamValues.link \cup {Missing},
               icon : ParamValues.icon \cup {Missing}]}

\* The text of a --message value that is a JSON object.
ObjectText == "{...}"
\* --message values that are JSON, but not a JSON object.
ScalarTexts == {"123", "null"}
\* --message values that are neither a command nor JSON.
GarbageTexts == {"foo", "Common-Message", "{"}
CommandTexts == {"common-message", "override-message"}

\* args.message after parse_args(): None without the flag, else its text;
\* decoded is what the text holds when it is a JSON object.
Args ==
    {[message |-> None, decoded |-> [keys |-> {}, vals |-> NoParams]]}
    \cup {[message |-> Str(x), decoded |-> [keys |-> {}, vals |-> NoParams]] :
            x \in {""} \cup CommandTexts \cup GarbageTexts \cup ScalarTexts}
    \cup {[message |-> Str(ObjectText), decoded |-> b] : b \in Bundles}

\* json.loads on the --message text.
json_loads(a) ==
    IF a.message.s = ObjectText
    THEN [error |-> "", type |-> "dict", value |-> a.decoded]
    ELSE IF a.message.s \in ScalarTexts
    THEN [error |-> "", type |-> "scalar", value |-> a.decoded]
    ELSE [error |-> "JSONDecodeError", type |-> "", value |-> a.decoded]

\* json.dumps: the JSON text of a value, kept as the value it encodes.
json_dumps(v) == [json |-> v]

\* What the identity provider and FCM may answer.
Tokens == {"ya29." \o ToString(i) : i \in 1..NumTokens}
StatusCodes == {200, 201, 403, 500}
ResponseTexts == {"{\"name\": \"projects/p/messages/1\"}", "{\"error\": {}}"}
Responses == [status_code : StatusCodes, text : ResponseTexts]

----------------------------------------------------------------------------
VARIABLES
    pc,              \* where the script is: startup, main, token, post, done, fatal
    err,             \* the exception that ended the script, "" without one
    serviceAccount,  \* the file at SERVICE_ACCOUNT_PATH
    args,            \* the parsed command line
    PROJECT_ID,      \* module global
    FCM_URL,         \* module global
    fcm_message,     \* the dict handed to _send_fcm_message
    access_token,    \* what _get_access_token returned
    net,             \* the network calls made, in order
    out              \* the lines printed

vars == <<pc, err, serviceAccount, args, PROJECT_ID, FCM_URL, fcm_message,
          access_token, net, out>>

BASE_URL == "https://fcm.googleapis.com"
FCM_ENDPOINT(project_id) == "v1/projects/" \o project_id \o "/messages:send"
SCOPES == <<"https://www.googleapis.com/auth/firebase.messaging">>

UsageText == "Invalid command. Please use one of the following commands: ..."
SuccessLine == "Message sent to Firebase for delivery, response:"
FailureLine == "Unable to send message to Firebase"
CommonHeading == "FCM request body for message using common notification object:"
OverrideHeading == "FCM request body for override message:"
CustomHeading == "Send custom message."
DumpLine == "<json.dumps(message, indent=2)>"

----------------------------------------------------------------------------
\* The message builders.

\* Faulty variant: the common message is sent to another topic.
_build_common_message_other_topic ==
    [message |->
        [topic |-> Str("all"),
         notification |->
            [title |-> Str("FCM Notification"),
             body |-> Str("Notification from FCM")]]]

_build_common_message ==
    [message |->
        [topic |-> Str("news"),
         notification |->
            [title |-> Str("FCM Notification"),
             body |-> Str("Notification from FCM")]]]

\* Faulty variant: the android override is stored over the shared notification.
_build_override_message_clobber ==
    LET fcm == _build_common_message
        apns_override ==
            [payload |-> [aps |-> [badge |-> Num(1)]],
             headers |-> ("apns-priority" :> Str("10"))]
        android_override ==
            [notification |-> [click_action |-> Str("android.intent.action.MAIN")]]
        with_android ==
            [message |-> ("android" :> android_override)
                            @@ [fcm.message EXCEPT !.notification = android_override.notification]]
    IN  [message |-> ("apns" :> apns_override) @@ with_android.message]

_build_override_message ==
    LET fcm == _build_common_message
        apns_override ==
            [payload |-> [aps |-> [badge |-> Num(1)]],
             headers |-> ("apns-priority" :> Str("10"))]
        android_override ==
            [notification |-> [click_action |-> Str("android.intent.action.MAIN")]]
        with_android == [message |-> ("android" :> android_override) @@ fcm.message]
    IN  [message |-> ("apns" :> apns_override) @@ with_android.message]

\* Faulty variant: click_action and icon are always stored, null included.
_build_common_custom_message_nulls(title, body, topic, data, link, icon) ==
    [message |->
        [topic |-> topic,
         notification |->
            [title |-> title, body |-> body, click_action |-> link, icon |-> icon],
         data |-> data,
         delivery_receipt_requested |-> True]]

\* Faulty variant: delivery_receipt_requested is left out.
_build_common_custom_message_no_receipt(title, body, topic, data, link, icon) ==
    LET notification0 == [title |-> title, body |-> body]
        notification1 ==
            IF truthy(link)
            THEN ("click_action" :> link) @@ notification0
            ELSE notification0
        notification2 ==
            IF truthy(icon)
            THEN ("icon" :> icon) @@ notification1
            ELSE notification1
    IN  [message |->
            [topic |-> topic,
             notification |-> notification2,
             data |-> data]]

_build_common_custom_message(title, body, topic, data, link, icon) ==
    LET notification0 == [title |-> title, body |-> body]
        notification1 ==
            IF truthy(link)
            THEN ("click_action" :> link) @@ notification0
            ELSE notification0
        notification2 ==
            IF truthy(icon)
            THEN ("icon" :> icon) @@ notification1
            ELSE notification1
    IN  [message |->
            [topic |-> topic,
             notification |-> notification2,
             data |-> data,
             delivery_receipt_requested |-> True]]

----------------------------------------------------------------------------
\* Module level, lines 22-28: read the service account file, build FCM_URL.
LoadServiceAccount ==
    /\ pc = "startup"
    /\ IF serviceAccount.kind = "missing"
       THEN /\ pc' = "fatal" /\ err' = "FileNotFoundError"
            /\ UNCHANGED <<PROJECT_ID, FCM_URL>>
       ELSE IF serviceAccount.kind = "not_json"
       THEN /\ pc' = "fatal" /\ err' = "JSONDecodeError:service-account"
            /\ UNCHANGED <<PROJECT_ID, FCM_URL>>
       ELSE LET project_id == get(serviceAccount, "project_id")
            IN  IF project_id.t # "str"
                THEN /\ pc' = "fatal" /\ err' = "TypeError"
                     /\ PROJECT_ID' = project_id
                     /\ UNCHANGED FCM_URL
                ELSE /\ pc' = "main" /\ err' = ""
                     /\ PROJECT_ID' = project_id
                     /\ FCM_URL' = BASE_URL \o "/" \o FCM_ENDPOINT(project_id.s)
    /\ UNCHANGED <<serviceAccount, args, fcm_message, access_token, net, out>>

\* Faulty variant: the last elif tests `args.message is not None`.
branch_is_not_none(message) ==
    IF truthy(message) /\ message.s = "common-message" THEN "common"
    ELSE IF truthy(message) /\ message.s = "override-message" THEN "override"
    ELSE IF message # None THEN "custom"
    ELSE "usage"

\* The if / elif chain of main(), lines 141-165.
branch(message) ==
    IF truthy(message) /\ message.s = "common-message" THEN "common"
    ELSE IF truthy(message) /\ message.s = "override-message" THEN "override"
    ELSE IF truthy(message) THEN "custom"
    ELSE "usage"

\* main(), up to its call of _send_fcm_message.
main ==
    /\ pc = "main"
    /\ LET b == branch(args.message)
       IN  CASE b = "common" ->
                  /\ fcm_message' = _build_common_message
                  /\ out' = out \o <<CommonHeading, DumpLine>>
                  /\ pc' = "token" /\ err' = ""
             [] b = "override" ->
                  /\ fcm_message' = _build_override_message
                  /\ out' = out \o <<OverrideHeading, DumpLine>>
                  /\ pc' = "token" /\ err' = ""
             [] b = "custom" ->
                  LET parsed == json_loads(args)
                      p == parsed.value
                  IN  IF parsed.error # ""
                      THEN /\ pc' = "fatal" /\ err' = "JSONDecodeError"
                           /\ out' = out \o <<CustomHeading>>
                           /\ UNCHANGED fcm_message
                      ELSE IF parsed.type # "dict"
                      THEN /\ pc' = "fatal" /\ err' = "AttributeError"
                           /\ out' = out \o <<CustomHeading>>
                           /\ UNCHANGED fcm_message
                      ELSE /\ fcm_message' =
                                _build_common_custom_message(
                                    get(p, "title"), get(p, "body"), get(p, "topic"),
                                    get(p, "data"), get(p, "link"), get(p, "icon"))
                           /\ out' = out \o <<CustomHeading, CommonHeading, DumpLine>>
                           /\ pc' = "token" /\ err' = ""
             [] b = "usage" ->
                  /\ out' = out \o <<UsageText>>
                  /\ pc' = "done" /\ err' = ""
                  /\ UNCHANGED fcm_message
    /\ UNCHANGED <<serviceAccount, args, PROJECT_ID, FCM_URL, access_token, net>>

\* Faulty variant: a failed exchange is swallowed and the send goes on
\* with an empty token.
_get_access_token_swallow ==
    /\ pc = "token"
    /\ \/ \E tok \in Tokens :
            /\ access_token' = tok
            /\ net' = Append(net, [kind |-> "token", scopes |-> SCOPES,
                                   ok |-> TRUE, token |-> tok])
       \/ /\ net' = Append(net, [kind |-> "token", scopes |-> SCOPES,
                                 ok |-> FALSE, token |-> ""])
          /\ access_token' = ""
       \/ /\ access_token' = ""
          /\ UNCHANGED net
    /\ pc' = "post" /\ err' = ""
    /\ UNCHANGED <<serviceAccount, args, PROJECT_ID, FCM_URL, fcm_message, out>>

\* _get_access_token(), called while _send_fcm_message builds its headers:
\* the key file is loaded again and exchanged for a token, once.
_get_access_token ==
    /\ pc = "token"
    /\ \/ \E tok \in Tokens :
            /\ access_token' = tok
            /\ net' = Append(net, [kind |-> "token", scopes |-> SCOPES,
                                   ok |-> TRUE, token |-> tok])
            /\ pc' = "post" /\ err' = ""
       \/ /\ net' = Append(net, [kind |-> "token", scopes |-> SCOPES,
                                 ok |-> FALSE, token |-> ""])
          /\ pc' = "fatal" /\ err' = "HttpAccessTokenRefreshError"
          /\ UNCHANGED access_token
       \/ /\ pc' = "fatal" /\ err' = "ValueError:service-account-key"
          /\ UNCHANGED <<access_token, net>>
    /\ UNCHANGED <<serviceAccount, args, PROJECT_ID, FCM_URL, fcm_message, out>>

\* Faulty variant: a token kept from an earlier run is sent.
headers_cached(token) ==
    ("Authorization" :> "Bearer ya29.cached")
        @@ ("Content-Type" :> "application/json; UTF-8")

\* The request headers, lines 53-56.
headers(token) ==
    ("Authorization" :> ("Bearer " \o token))
        @@ ("Content-Type" :> "application/json; UTF-8")

\* Faulty variant: every 2xx status counts as success.
report_2xx(resp) ==
    IF resp.status_code >= 200 /\ resp.status_code < 300
    THEN <<SuccessLine, resp.text>>
    ELSE <<FailureLine, resp.text>>

\* The lines printed for a response, lines 61-66.
report(resp) ==
    IF resp.status_code = 200
    THEN <<SuccessLine, resp.text>>
    ELSE <<FailureLine, resp.text>>

\* _send_fcm_message() from requests.post on, lines 58-66.
_send_fcm_message ==
    /\ pc = "post"
    /\ LET request == [kind |-> "post", url |-> FCM_URL,
                       headers |-> headers(access_token),
                       data |-> json_dumps(fcm_message)]
       IN  \/ \E resp \in Responses :
                /\ net' = Append(net, request @@ [ok |-> TRUE, resp |-> resp])
                /\ out' = out \o report(resp)
                /\ pc' = "done" /\ err' = ""
           \/ /\ net' = Append(net, request @@
                                [ok |-> FALSE, resp |-> [status_code |-> 0, text |-> ""]])
              /\ pc' = "fatal" /\ err' = "ConnectionError"
              /\ UNCHANGED out
    /\ UNCHANGED <<serviceAccount, args, PROJECT_ID, FCM_URL, fcm_message, access_token>>

----------------------------------------------------------------------------
Init ==
    /\ pc = "startup"
    /\ err = ""
    /\ serviceAccount \in ServiceAccountFiles
    /\ args \in Args
    /\ PROJECT_ID = None
    /\ FCM_URL = ""
    /\ fcm_message = <<>>
    /\ access_token = ""
    /\ net = <<>>
    /\ out = <<>>

Next ==
    \/ LoadServiceAccount
    \/ main
    \/ _get_access_token
    \/ _send_fcm_message

Spec == Init /\ [][Next]_vars

\* The script is one sequential thread: a step that can run does run.
FairSpec == Spec /\ WF_vars(Next)

Terminated == pc \in {"done", "fatal"}

----------------------------------------------------------------------------
\* Vocabulary of the properties.

\* A message has been built (and so handed to _send_fcm_message).
Built == DOMAIN fcm_message # {}
\* main() has been entered and has run.
MainRan == pc \in {"token", "post", "done"}
              \/ (pc = "fatal" /\ err \in {"JSONDecodeError", "AttributeError",
                     "HttpAccessTokenRefreshError", "ValueError:service-account-key",
                     "ConnectionError"})
IsCommon == args.message = Str("common-message")
IsOverride == args.message = Str("override-message")
IsCustom == args.message = Str(ObjectText)
\* The flag is absent, or its value is none of the three accepted forms.
Unrecognized == args.message = None
                   \/ (args.message.s \notin CommandTexts /\ args.message.s # ObjectText)
TokenCalls == {i \in 1..Len(net) : net[i].kind = "token"}
PostCalls == {i \in 1..Len(net) : net[i].kind = "post"}
LastTwo(q) == IF Len(q) < 2 THEN <<>> ELSE <<q[Len(q) - 1], q[Len(q)]>>
Contains(q, x) == \E i \in 1..Len(q) : q[i] = x

----------------------------------------------------------------------------
\* C1 (as stated): whenever main has run to its end with the --message flag
\* absent or with a value that is none of common-message, override-message
\* or a JSON object, the usage help is what was printed and no network call
\* was made.
C1_UsageForEveryUnrecognizedValue ==
    (MainRan /\ Terminated /\ Unrecognized)
        => (out = <<UsageText>> /\ Len(net) = 0)

\* C1 (amended): with the flag absent or its value empty, main prints the
\* usage help, makes no network call and exits normally; with any other
\* value that is none of the three accepted forms, main still makes no
\* network call, but it does not print the usage help: json.loads or .get
\* raises and the script ends with that exception.
C1_UsageOnlyWhenAbsentOrEmpty ==
    Unrecognized =>
        /\ Len(net) = 0
        /\ (MainRan /\ Terminated /\ ~truthy(args.message))
              => (out = <<UsageText>> /\ pc = "done" /\ err = "")
        /\ (MainRan /\ Terminated /\ truthy(args.message))
              => /\ pc = "fatal"
                 /\ err \in {"JSONDecodeError", "AttributeError"}
                 /\ ~Contains(out, UsageText)

C1_Witness ==
    /\ args.message = Str("")
    /\ pc = "done"
    /\ out = <<UsageText>>
    /\ Len(net) = 0

\* C2: every payload handed to _send_fcm_message is {"message": {...}} whose
\* inner object holds the key topic, with a string as its value.
C2_EnvelopeWithStringTopic ==
    Built =>
        /\ DOMAIN fcm_message = {"message"}
        /\ "topic" \in DOMAIN fcm_message.message
        /\ fcm_message.message.topic.t = "str"

\* C3: in a custom message, for link (key click_action) and icon (key icon):
\* when the parameter is missing, null or the empty string the key is not
\* in notification; when it is a non-empty string the key is there with
\* that value.
C3_OptionalKeysOmittedNotNull ==
    (Built /\ IsCustom) =>
        LET p == args.decoded
            notification == fcm_message.message.notification
            keyOf == [link |-> "click_action", icon |-> "icon"]
        IN  \A f \in {"link", "icon"} :
              /\ (f \notin p.keys \/ p.vals[f] = None \/ p.vals[f] = Str(""))
                    => keyOf[f] \notin DOMAIN notification
              /\ (f \in p.keys /\ p.vals[f].t = "str" /\ p.vals[f].s # "")
                    => /\ keyOf[f] \in DOMAIN notification
                       /\ notification[keyOf[f]] = p.vals[f]

C3_Witness ==
    /\ Built /\ IsCustom
    /\ "link" \notin args.decoded.keys
    /\ args.decoded.vals["icon"] = Str("ic_x")
    /\ DOMAIN fcm_message.message.notification = {"title", "body", "icon"}

\* C4: a service account file that is missing, unreadable or without a
\* string project_id, a failed token exchange, and a --message value that
\* is not a JSON object each end the script with an exception: no message
\* POST is made, the failed step is not tried again, and nothing runs
\* afterwards.
C4_FatalErrorsStopWithoutPost ==
    LET badFile == serviceAccount.kind # "object"
                      \/ get(serviceAccount, "project_id").t # "str"
        badArgument == truthy(args.message) /\ Unrecognized
        tokenFailed == err \in {"HttpAccessTokenRefreshError",
                                "ValueError:service-account-key"}
                          \/ \E i \in TokenCalls : ~net[i].ok
    IN  /\ (badFile /\ pc # "startup")
              => (pc = "fatal" /\ Len(net) = 0 /\ out = <<>>)
        /\ (badArgument /\ pc \notin {"startup", "main"})
              => (pc = "fatal" /\ Len(net) = 0)
        /\ tokenFailed
              => (pc = "fatal" /\ PostCalls = {} /\ Cardinality(TokenCalls) <= 1)
        /\ pc = "fatal" => (err # "" /\ ~ENABLED Next)

C4_Witness ==
    /\ pc = "fatal"
    /\ err = "HttpAccessTokenRefreshError"
    /\ Len(net) = 1
    /\ net[1].kind = "token" /\ ~net[1].ok

\* C5: an invocation makes at most two network calls, the token exchange
\* and then the message POST; the POST carries the token that the exchange
\* just before it returned; after the POST the script is over; and every
\* invocation comes to an end.
C5_NetworkOrder ==
    /\ Len(net) <= 2
    /\ TokenCalls \subseteq {1}
    /\ \A i \in PostCalls :
          /\ i = 2
          /\ net[1].kind = "token" /\ net[1].ok
          /\ net[i].headers["Authorization"] = "Bearer " \o net[1].token
          /\ Terminated

C5_TokenThenPostThenExit == []C5_NetworkOrder /\ <>Terminated

C5_Witness ==
    /\ pc = "done"
    /\ Len(net) = 2
    /\ net[1].kind = "token" /\ net[2].kind = "post"

\* C6: once the POST has been answered, the last two lines printed are the
\* success line (status 200) or the failure line (any other status) and
\* then the raw response body, and the script has exited normally.
C6_ResponseReported ==
    \A i \in PostCalls :
        net[i].ok =>
            /\ pc = "done" /\ err = ""
            /\ LastTwo(out) =
                  <<IF net[i].resp.status_code = 200 THEN SuccessLine ELSE FailureLine,
                    net[i].resp.text>>

C6_Witness ==
    /\ pc = "done"
    /\ PostCalls = {2}
    /\ net[2].ok /\ net[2].resp.status_code = 403
    /\ LastTwo(out) = <<FailureLine, net[2].resp.text>>

\* C7: the override message is the common message with exactly two keys
\* added under message: android, whose notification.click_action is
\* android.intent.action.MAIN, and apns, whose payload.aps.badge is 1 and
\* whose headers hold apns-priority "10"; every key of the common message
\* is kept with its value.
C7_OverrideIsCommonPlusTwoKeys ==
    (Built /\ IsOverride) =>
        LET m == fcm_message.message
            common == _build_common_message.message
        IN  /\ DOMAIN fcm_message = {"message"}
            /\ DOMAIN m = DOMAIN common \cup {"android", "apns"}
            /\ \A k \in DOMAIN common : m[k] = common[k]
            /\ m["android"] =
                  [notification |-> [click_action |-> Str("android.intent.action.MAIN")]]
            /\ m["apns"] =
                  [payload |-> [aps |-> [badge |-> Num(1)]],
                   headers |-> ("apns-priority" :> Str("10"))]

C7_Witness ==
    /\ Built /\ IsOverride
    /\ DOMAIN fcm_message.message = {"topic", "notification", "android", "apns"}

\* C8: a custom message whose six parameters are all present and non-empty
\* is exactly topic, notification {title, body, click_action, icon}, data
\* and delivery_receipt_requested true, with the values as given; the
\* custom message always sets delivery_receipt_requested and the common
\* and override messages never hold that key.
C8_CustomMessageExact ==
    LET p == args.decoded
        full == /\ p.keys = ParamKeys
                /\ \A k \in ParamKeys \ {"data"} : p.vals[k].t = "str" /\ p.vals[k].s # ""
                /\ p.vals["data"].t = "obj" /\ p.vals["data"].n > 0
    IN  /\ (Built /\ IsCustom /\ full) =>
              fcm_message =
                 [message |->
                    [topic |-> p.vals["topic"],
                     notification |->
                        [title |-> p.vals["title"],
                         body |-> p.vals["body"],
                         click_action |-> p.vals["link"],
                         icon |-> p.vals["icon"]],
                     data |-> p.vals["data"],
                     delivery_receipt_requested |-> True]]
        /\ (Built /\ IsCustom) =>
              /\ "delivery_receipt_requested" \in DOMAIN fcm_message.message
              /\ fcm_message.message["delivery_receipt_requested"] = True
        /\ (Built /\ (IsCommon \/ IsOverride)) =>
              "delivery_receipt_requested" \notin DOMAIN fcm_message.message

C8_Witness ==
    /\ Built /\ IsCustom
    /\ args.decoded.keys = ParamKeys
    /\ args.decoded.vals["link"] = Str("https://x")
    /\ args.decoded.vals["icon"] = Str("ic_x")
    /\ args.decoded.vals["topic"] = Str("promo")
    /\ fcm_message.message.notification["click_action"] = Str("https://x")

\* C9: on the common-message path the message built, and the body of the
\* POST that sends it, has topic "news" and no android, apns or data key.
C9_CommonMessageShape ==
    (Built /\ IsCommon) =>
        /\ fcm_message.message.topic = Str("news")
        /\ DOMAIN fcm_message.message \cap {"android", "apns", "data"} = {}
        /\ \A i \in PostCalls :
              /\ net[i].data = json_dumps(fcm_message)
              /\ net[i].data.json.message.topic = Str("news")
              /\ DOMAIN net[i].data.json.message \cap {"android", "apns", "data"} = {}

C9_Witness ==
    /\ IsCommon
    /\ PostCalls = {2}
    /\ net[2].data.json.message.topic = Str("news")

\* C10: every message POST goes to
\* https://fcm.googleapis.com/v1/projects/{project_id}/messages:send for the
\* project_id of the service account file, with the headers
\* Authorization: Bearer {the token just obtained} and
\* Content-Type: application/json; charset=UTF-8.
C10_PostUrlAndHeaders ==
    \A i \in PostCalls :
        /\ i > 1 /\ net[i - 1].kind = "token"
        /\ net[i].url = "https://fcm.googleapis.com/v1/projects/"
                            \o get(serviceAccount, "project_id").s \o "/messages:send"
        /\ DOMAIN net[i].headers = {"Authorization", "Content-Type"}
        /\ net[i].headers["Authorization"] = "Bearer " \o net[i - 1].token
        /\ net[i].headers["Content-Type"] = "application/json; charset=UTF-8"
====
